---- MODULE Spec2Model ----
(***************************************************************************)
(* Authentication / authorization substrate of the Netflix Hub backend:    *)
(* signup, login, session resolution, user activation and password reset,  *)
(* over a relational store (adp_user, adp_role, adp_user_role,             *)
(* adp_account, adp_login_audit, adp_password_reset).                      *)
(*                                                                         *)
(* Store semantics assumed by the handlers: every handler runs in one      *)
(* transaction; reads see committed rows; unique and primary-key           *)
(* constraints are enforced when the rows are flushed; a FOR UPDATE query  *)
(* takes a lock that is held until the transaction commits or rolls back.  *)
(***************************************************************************)
EXTENDS Integers, Sequences, FiniteSets, TLC

\* ------------------------------------------------------------------ bounds
NumReq == 2            \* concurrent signup requests
NumConfirm == 2        \* concurrent password-reset confirm requests
MaxTokens == 1         \* password-reset tokens that may be created
MaxLogins == 2         \* login attempts (bounds the audit log)
NumAssign == 2         \* concurrent assign_role requests
NumFeedback == 2       \* concurrent feedback requests
MaxEpisodes == 3       \* episode rows that may exist at a time
NumSeries == 2         \* concurrent create_series requests
NumViews == 2          \* concurrent record_view requests
MaxSchedules == 1      \* schedule rows that may exist at a time
NumUpdates == 2        \* concurrent update_schedule requests

\* ------------------------------------------------------- program constants
SECRET_KEY == "super-secret-change-me-in-production"
ACCESS_TOKEN_EXPIRE_MINUTES == 1440
PASSWORD_RESET_EXPIRE_HOURS == 24
MINUTES_PER_HOUR == 60

LOGIN_FAILED == "Incorrect email/username or password"
RESET_GENERIC == "If the email exists, a reset link has been sent."

\* ------------------------------------------------------------ input values
Procs == 1..NumReq
CProcs == 1..NumConfirm
TokenIds == 1..MaxTokens
AProcs == 1..NumAssign
FProcs == 1..NumFeedback
SProcs == 1..NumSeries
VProcs == 1..NumViews
UProcs == 1..NumUpdates

None == -1                     \* NULL column / absent value
NoHash == <<>>                 \* no digest computed yet

SignupEmails == {"a@x.com", "c@x.com", "d@x.com"}
SignupNames == {"carol", "dave"}
Passwords == {"secret123", "adminpw"}
NewPasswords == {"newpass1"}
Countries == {"US", "ZZ"}
Identifiers == {"admin", "a@x.com", "alice", "nobody@x.com"}
ResetEmails == {"a@x.com", "nobody@x.com"}
UserIds == 1..3                \* user ids an administrator may name

\* The clock is observed at the instants that matter for the lifetimes
\* (minutes): issue time, one minute later, the expiry instant, one past it.
Instants == {0, 1, ACCESS_TOKEN_EXPIRE_MINUTES, ACCESS_TOKEN_EXPIRE_MINUTES + 1}

VARIABLES
  users,        \* adp_user: user_id -> row
  roles,        \* adp_role: set of role codes
  grants,       \* adp_user_role: set of <<user_id, role_code>>
  accounts,     \* adp_account: account_id -> owning user_id
  countries,    \* adp_country: set of country codes
  audits,       \* adp_login_audit: sequence of rows, in insertion order
  resets,       \* adp_password_reset: token_id -> row
  now,          \* datetime.utcnow(), in minutes
  tokens,       \* bearer tokens issued so far (held by clients)
  stale,        \* history: tokens that were issued before their subject's
                \* current deactivation
  req,          \* signup requests in flight: Procs -> handler frame
  lockUser,     \* holder of the FOR UPDATE lock on adp_user (0 = free)
  lockAccount,  \* holder of the FOR UPDATE lock on adp_account (0 = free)
  creq,         \* confirm_password_reset requests in flight
  resp,         \* response of the last completed sequential request
  areq,         \* assign_role requests in flight
  autoflush,    \* the autoflush setting of the sessions get_db hands out
  series,       \* adp_series: series_id -> row
  episodes,     \* adp_episode: episode_id -> row
  feedback,     \* adp_feedback: <<account_id, series_id>> -> rating
  links,        \* rows of the other tables that reference a series:
                \* set of <<table, series_id>>
  views,        \* adp_view_history: view_id -> row
  schedules,    \* adp_schedule: schedule_id -> row
  freq,         \* feedback requests in flight
  sreq,         \* create_series requests in flight
  lockSeries,   \* holder of the FOR UPDATE lock on adp_series (0 = free)
  vreq,         \* record_view requests in flight
  ureq          \* update_schedule requests in flight

\* The variables of the handlers outside signup, login, session resolution
\* and password reset.
catalogStore == <<series, episodes, feedback, links, views, schedules>>
catalogVars == <<autoflush, catalogStore, freq, sreq, lockSeries, vreq, ureq>>
extVars == <<areq, catalogVars>>

vars == <<users, roles, grants, accounts, countries, audits, resets, now,
          tokens, stale, req, lockUser, lockAccount, creq, resp, extVars>>

storeVars == <<users, roles, grants, accounts, countries, audits, resets>>

\* ----------------------------------------------------------------- helpers
Max(S) == IF S = {} THEN None ELSE CHOOSE m \in S : \A x \in S : x <= m

\* func.max(column).scalar() followed by (max or 0) + 1
NextId(ids) == (IF Max(ids) = None THEN 0 ELSE Max(ids)) + 1

\* pwd_context.hash: a bcrypt digest of the plaintext (the salt does not
\* change which plaintext verifies).
get_password_hash(password) == <<"bcrypt", password>>

\* verify_password: False on an empty digest, else the bcrypt comparison.
verify_password(plain_password, hashed_password) ==
  IF hashed_password = NoHash THEN FALSE
  ELSE hashed_password = <<"bcrypt", plain_password>>

\* pwd_context.verify raises (UnknownHashError, or a malformed-hash
\* ValueError) for a non-empty digest that is not a well-formed digest of a
\* scheme of the context; verify_password does not catch it.
verify_password_raises(hashed_password) ==
  hashed_password # NoHash /\ hashed_password[1] # "bcrypt"

\* get_user_by_identifier: rows whose email OR username equals the
\* identifier (.first() returns one of them, or nothing).
get_user_by_identifier(identifier) ==
  {u \in DOMAIN users :
     users[u].email = identifier \/ users[u].username = identifier}

\* get_user_roles: role codes granted to the user in adp_user_role.
get_user_roles(user_id) == {g[2] : g \in {h \in grants : h[1] = user_id}}

\* A response together with the request it answers: the identifier and
\* password of a login or reset request, the bearer token presented (or, for
\* login, issued), and the identity the handler resolved.
NoResp == [op |-> "none", status |-> 0, detail |-> "", user |-> None,
           ident |-> "", password |-> "", token |-> {}]

Resp(op, status, detail, user, ident, password, token) ==
  [op |-> op, status |-> status, detail |-> detail, user |-> user,
   ident |-> ident, password |-> password, token |-> token]

\* ------------------------------------------------------------------ signup
\* conc records that another signup was in flight when this one ran its
\* pre-check.
IdleReq == [pc |-> "idle", email |-> "", username |-> "", country |-> "",
            uid |-> 0, role |-> FALSE, aid |-> 0, status |-> 0,
            detail |-> "", conc |-> FALSE]

InFlight(q) == req[q].pc \notin {"idle", "done"}

Finish(p, status, detail) ==
  [req EXCEPT ![p].pc = "done", ![p].status = status, ![p].detail = detail]

\* A signup request arrives with its validated payload.
signup_begin(p, email, username, country) ==
  /\ req[p].pc = "idle"
  /\ req' = [req EXCEPT ![p] = [IdleReq EXCEPT !.pc = "precheck",
                                  !.email = email, !.username = username,
                                  !.country = country]]
  /\ UNCHANGED <<extVars, storeVars, now, tokens, stale, lockUser, lockAccount,
                 creq, resp>>

\* Variant: the pre-check looks up the email only.
signup_precheck_emailonly(p) ==
  /\ req[p].pc = "precheck"
  /\ req' =
       IF get_user_by_identifier(req[p].email) # {}
         THEN Finish(p, 400, "Email already registered")
       ELSE IF req[p].country \notin countries
         THEN Finish(p, 400, "Invalid country code")
       ELSE [req EXCEPT ![p].pc = "lock_user",
                        ![p].conc = \E q \in Procs \ {p} : InFlight(q)]
  /\ UNCHANGED <<extVars, storeVars, now, tokens, stale, lockUser, lockAccount,
                 creq, resp>>

\* Uniqueness pre-check on email and username, then the country check.
signup_precheck(p) ==
  /\ req[p].pc = "precheck"
  /\ req' =
       IF get_user_by_identifier(req[p].email) # {}
         THEN Finish(p, 400, "Email already registered")
       ELSE IF get_user_by_identifier(req[p].username) # {}
         THEN Finish(p, 400, "Username already taken")
       ELSE IF req[p].country \notin countries
         THEN Finish(p, 400, "Invalid country code")
       ELSE [req EXCEPT ![p].pc = "lock_user",
                        ![p].conc = \E q \in Procs \ {p} : InFlight(q)]
  /\ UNCHANGED <<extVars, storeVars, now, tokens, stale, lockUser, lockAccount,
                 creq, resp>>

\* Variant: the max(user_id) query is issued without the lock.
UserLockGranted_nolock(p) == TRUE

\* with_for_update(nowait=False): wait for the lock on adp_user.
UserLockGranted(p) == lockUser = 0

\* max(user_id) FOR UPDATE, next_user_id, the pending user row and the
\* pending USER grant (only if the USER role exists).
signup_lock_user(p) ==
  /\ req[p].pc = "lock_user"
  /\ UserLockGranted(p)
  /\ lockUser' = p
  /\ req' = [req EXCEPT ![p].pc = "lock_account",
                        ![p].uid = NextId(DOMAIN users),
                        ![p].role = ("USER" \in roles)]
  /\ UNCHANGED <<extVars, storeVars, now, tokens, stale, lockAccount, creq, resp>>

\* max(account_id) FOR UPDATE, next_account_id and the pending account row.
signup_lock_account(p) ==
  /\ req[p].pc = "lock_account"
  /\ lockAccount = 0
  /\ lockAccount' = p
  /\ req' = [req EXCEPT ![p].pc = "commit",
                        ![p].aid = NextId(DOMAIN accounts)]
  /\ UNCHANGED <<extVars, storeVars, now, tokens, stale, lockUser, creq, resp>>

\* The INSERTs of the pending rows violate a constraint of the store:
\* primary key of adp_user, unique email, unique username, primary key of
\* adp_account.
IntegrityViolation(p) ==
  \/ req[p].uid \in DOMAIN users
  \/ \E u \in DOMAIN users : users[u].email = req[p].email
  \/ \E u \in DOMAIN users : users[u].username = req[p].username
  \/ req[p].aid \in DOMAIN accounts

Release(p, lock) == IF lock = p THEN 0 ELSE lock

NewUser(p) ==
  [email |-> req[p].email, username |-> req[p].username,
   password_hash |-> get_password_hash("secret123"),
   is_active |-> TRUE, last_login_at |-> None]

\* The rows signup commits: the user, its USER grant, its account.
SignupGrants(p) ==
  IF req[p].role THEN {<<req[p].uid, "USER">>} ELSE {}

\* db.commit(): flush the pending rows and commit them together.  An
\* IntegrityError is not an OperationalError, so it leaves the handler
\* unhandled (500) and the transaction is rolled back.
signup_commit(p) ==
  /\ req[p].pc = "commit"
  /\ IF IntegrityViolation(p)
       THEN /\ req' = Finish(p, 500, "IntegrityError")
            /\ UNCHANGED <<users, grants, accounts>>
       ELSE /\ users' = [u \in DOMAIN users \cup {req[p].uid} |->
                           IF u = req[p].uid THEN NewUser(p) ELSE users[u]]
            /\ grants' = grants \cup SignupGrants(p)
            /\ accounts' = [a \in DOMAIN accounts \cup {req[p].aid} |->
                              IF a = req[p].aid THEN req[p].uid
                              ELSE accounts[a]]
            /\ req' = Finish(p, 201, "Created")
  /\ lockUser' = Release(p, lockUser)
  /\ lockAccount' = Release(p, lockAccount)
  /\ UNCHANGED <<extVars, roles, countries, audits, resets, now, tokens, stale,
                 creq, resp>>

signup(p) ==
  \/ \E e \in SignupEmails, n \in SignupNames, c \in Countries :
       signup_begin(p, e, n, c)
  \/ signup_precheck(p)
  \/ signup_lock_user(p)
  \/ signup_lock_account(p)
  \/ signup_commit(p)

\* ------------------------------------------------------------------ tokens
\* str(user.user_id) and int(sub): the decimal text of an id and its parse.
StrOf(n) == <<"str", n>>
ParseInt(s) == s[2]

\* A sub claim that is a string but not the decimal text of an integer
\* (int(sub) raises ValueError), and a payload without a sub claim.
NotANumber == <<"text", 0>>
NoSub == <<"none", 0>>
Parseable(s) == s[1] = "str"

\* create_access_token: the payload plus exp = utcnow() + the default
\* lifetime, signed with SECRET_KEY.
create_access_token(data) ==
  [sub |-> data.sub, roles |-> data.roles,
   exp |-> now + ACCESS_TOKEN_EXPIRE_MINUTES, key |-> SECRET_KEY]

\* jwt.decode: the signature must verify against SECRET_KEY and the token
\* is rejected as expired once exp < now.
JwtValid(t) == t.key = SECRET_KEY /\ ~(t.exp < now)

Result(status, detail, user) ==
  [status |-> status, detail |-> detail, user |-> user]

\* app.deps.decode_token: the verified payload, or the 401 it raises.
deps_decode_token(t) ==
  IF JwtValid(t) THEN [ok |-> TRUE, sub |-> t.sub, roles |-> t.roles]
  ELSE [ok |-> FALSE, sub |-> NoSub, roles |-> {}]

\* app.auth.decode_token: TokenData(user_id=int(sub)), or ValueError.
auth_decode_token(t) ==
  IF JwtValid(t) /\ t.sub # NoSub /\ Parseable(t.sub)
    THEN [ok |-> TRUE, user_id |-> ParseInt(t.sub)]
  ELSE [ok |-> FALSE, user_id |-> None]

\* OAuth2PasswordBearer: a request without an Authorization bearer is
\* answered before the dependency runs.
NOT_AUTHENTICATED == Result(401, "Not authenticated", None)

\* app.deps.get_current_user.  int(user_id) is evaluated outside any
\* handler of ValueError, so a sub that is not a number ends the request
\* with an unhandled error (500).
deps_get_current_user(t) ==
  IF ~deps_decode_token(t).ok
    THEN Result(401, "Invalid or expired token", None)
  ELSE IF deps_decode_token(t).sub = NoSub
    THEN Result(401, "Invalid token payload", None)
  ELSE IF ~Parseable(deps_decode_token(t).sub)
    THEN Result(500, "ValueError", None)
  ELSE IF ParseInt(t.sub) \notin DOMAIN users
    THEN Result(401, "User not found", None)
  ELSE IF ~users[ParseInt(t.sub)].is_active
    THEN Result(403, "User account is deactivated", None)
  ELSE Result(200, "", ParseInt(t.sub))

\* app.auth.get_current_user: every ValueError of decode_token becomes 401.
auth_get_current_user(t) ==
  IF ~auth_decode_token(t).ok
    THEN Result(401, "Could not validate credentials", None)
  ELSE IF auth_decode_token(t).user_id \notin DOMAIN users
    THEN Result(401, "Could not validate credentials", None)
  ELSE Result(200, "", auth_decode_token(t).user_id)

\* Variant: the gate trusts the roles claim of the token.
require_admin_claims(t) ==
  LET r == deps_get_current_user(t) IN
  IF r.status # 200 THEN r
  ELSE IF "ADMIN" \notin t.roles
    THEN Result(403, "Admin access required", None)
  ELSE r

\* app.deps.require_admin, on top of app.deps.get_current_user
require_admin(t) ==
  LET r == deps_get_current_user(t) IN
  IF r.status # 200 THEN r
  ELSE IF "ADMIN" \notin get_user_roles(r.user)
    THEN Result(403, "Admin access required", None)
  ELSE r

\* app.deps.require_employee, on top of app.deps.get_current_user
require_employee(t) ==
  LET r == deps_get_current_user(t) IN
  IF r.status # 200 THEN r
  ELSE IF "ADMIN" \notin get_user_roles(r.user)
          /\ "EMPLOYEE" \notin get_user_roles(r.user)
    THEN Result(403, "Employee access required", None)
  ELSE r

\* ------------------------------------------------------------------- login
\* .first() of a query: one of the matching rows, None when there is none.
First(S) == IF S = {} THEN {None} ELSE S

\* authenticate_user on the row the lookup returned: the user if the
\* password verifies, otherwise None.
authenticate_user(u, password) ==
  IF u = None THEN None
  ELSE IF ~verify_password(password, users[u].password_hash) THEN None
  ELSE u

\* Variant: an unknown identifier is answered with its own error.
login_response_leaky(u, identifier, password) ==
  IF u = None
    THEN Resp("login", 404, "User not found", u, identifier, password, {})
  ELSE IF authenticate_user(u, password) = None
    THEN Resp("login", 401, LOGIN_FAILED, u, identifier, password, {})
  ELSE Resp("login", 200, "", u, identifier, password,
            {create_access_token([sub |-> StrOf(u),
                                  roles |-> get_user_roles(u)])})

\* The response of login for the row u that the identifier lookup returned.
login_response(u, identifier, password) ==
  IF authenticate_user(u, password) = None
    THEN Resp("login", 401, LOGIN_FAILED, u, identifier, password, {})
  ELSE Resp("login", 200, "", u, identifier, password,
            {create_access_token([sub |-> StrOf(u),
                                  roles |-> get_user_roles(u)])})

Audit(u, success) ==
  [user_id |-> u, login_time |-> now, success |-> success,
   client_ip |-> "10.0.0.7", user_agent |-> "curl"]

\* Variant: a failed attempt is not recorded.
login_nofailaudit(identifier, password) ==
  /\ Len(audits) < MaxLogins
  /\ \E u \in First(get_user_by_identifier(identifier)) :
       LET user == authenticate_user(u, password) IN
       /\ resp' = login_response(u, identifier, password)
       /\ IF user = None
            THEN UNCHANGED <<users, audits, tokens>>
            ELSE /\ users' = [users EXCEPT ![user].last_login_at = now]
                 /\ audits' = Append(audits, Audit(user, TRUE))
                 /\ tokens' = tokens \cup resp'.token
  /\ UNCHANGED <<extVars, roles, grants, accounts, countries, resets, now, stale,
                 req, lockUser, lockAccount, creq>>

\* Variant: a successful login keeps only its own record in the log.
login_truncating(identifier, password) ==
  /\ Len(audits) < MaxLogins
  /\ \E u \in First(get_user_by_identifier(identifier)) :
       LET user == authenticate_user(u, password) IN
       /\ resp' = login_response(u, identifier, password)
       /\ IF user = None
            THEN /\ audits' = IF u # None
                                THEN Append(audits, Audit(u, FALSE))
                                ELSE audits
                 /\ UNCHANGED <<users, tokens>>
            ELSE /\ users' = [users EXCEPT ![user].last_login_at = now]
                 /\ audits' = <<Audit(user, TRUE)>>
                 /\ tokens' = tokens \cup resp'.token
  /\ UNCHANGED <<extVars, roles, grants, accounts, countries, resets, now, stale,
                 req, lockUser, lockAccount, creq>>

\* POST /auth/login.  An exception of verify_password leaves the handler
\* unhandled (500) before anything is written.
login(identifier, password) ==
  /\ Len(audits) < MaxLogins
  /\ \E u \in First(get_user_by_identifier(identifier)) :
       IF u # None /\ verify_password_raises(users[u].password_hash)
         THEN /\ resp' = Resp("login", 500, "UnknownHashError", u,
                              identifier, password, {})
              /\ UNCHANGED <<users, audits, tokens>>
       ELSE
       LET user == authenticate_user(u, password) IN
       /\ resp' = login_response(u, identifier, password)
       /\ IF user = None
            THEN /\ audits' = IF u # None
                                THEN Append(audits, Audit(u, FALSE))
                                ELSE audits
                 /\ UNCHANGED <<users, tokens>>
            ELSE /\ users' = [users EXCEPT ![user].last_login_at = now]
                 /\ audits' = Append(audits, Audit(user, TRUE))
                 /\ tokens' = tokens \cup resp'.token
  /\ UNCHANGED <<extVars, roles, grants, accounts, countries, resets, now, stale,
                 req, lockUser, lockAccount, creq>>

\* The login of a user whose password verifies, when the store fails the
\* write of last_login_at: the UPDATE and the audit INSERT are flushed by the
\* one db.commit(), which raises; nothing is committed, no token is issued
\* and the exception leaves the handler unhandled (500).
login_store_failure(identifier, password) ==
  /\ \E u \in First(get_user_by_identifier(identifier)) :
       /\ authenticate_user(u, password) # None
       /\ resp' = Resp("login", 500, "OperationalError", u, identifier,
                       password, {})
  /\ UNCHANGED <<extVars, storeVars, now, tokens, stale, req, lockUser, lockAccount,
                 creq>>

\* ------------------------------------------------------- session resolution
\* A protected request presents an issued token to app.deps.get_current_user.
resolve_deps(t) ==
  /\ LET r == deps_get_current_user(t) IN
       resp' = Resp("deps.get_current_user", r.status, r.detail, r.user,
                    "", "", {t})
  /\ UNCHANGED <<extVars, storeVars, now, tokens, stale, req, lockUser, lockAccount,
                 creq>>

\* A protected request presents an issued token to app.auth.get_current_user.
resolve_auth(t) ==
  /\ LET r == auth_get_current_user(t) IN
       resp' = Resp("auth.get_current_user", r.status, r.detail, r.user,
                    "", "", {t})
  /\ UNCHANGED <<extVars, storeVars, now, tokens, stale, req, lockUser, lockAccount,
                 creq>>

\* A protected request arrives without an Authorization bearer.
resolve_nobearer(op) ==
  /\ resp' = Resp(op, NOT_AUTHENTICATED.status, NOT_AUTHENTICATED.detail,
                  NOT_AUTHENTICATED.user, "", "", {})
  /\ UNCHANGED <<extVars, storeVars, now, tokens, stale, req, lockUser, lockAccount,
                 creq>>

TokensOf(user_id) == {t \in tokens : ParseInt(t.sub) = user_id}

\* POST /users/{user_id}/deactivate and /activate, behind require_admin
set_active(op, t, user_id, active) ==
  LET g == require_admin(t) IN
  /\ IF g.status # 200
       THEN /\ resp' = Resp(op, g.status, g.detail, None, "", "", {t})
            /\ UNCHANGED <<users, stale>>
     ELSE IF user_id \notin DOMAIN users
       THEN /\ resp' = Resp(op, 404, "User not found", None, "", "", {t})
            /\ UNCHANGED <<users, stale>>
     ELSE /\ users' = [users EXCEPT ![user_id].is_active = active]
          /\ stale' = IF active THEN stale \ TokensOf(user_id)
                      ELSE stale \cup TokensOf(user_id)
          /\ resp' = Resp(op, 204, "", user_id, "", "", {t})
  /\ UNCHANGED <<extVars, roles, grants, accounts, countries, audits, resets, now,
                 tokens, req, lockUser, lockAccount, creq>>

deactivate_user(t, user_id) == set_active("deactivate_user", t, user_id, FALSE)

activate_user(t, user_id) == set_active("activate_user", t, user_id, TRUE)

\* Response of a gated endpoint whose dependency raised: the body is not
\* entered and nothing is written.
Refused(op, g, t) ==
  /\ resp' = Resp(op, g.status, g.detail, None, "", "", {t})
  /\ UNCHANGED storeVars

\* POST /users/roles/assign, behind require_admin
assign_role(t, user_id, role_code) ==
  LET g == require_admin(t) IN
  /\ IF g.status # 200 THEN Refused("assign_role", g, t)
     ELSE IF user_id \notin DOMAIN users
       THEN /\ resp' = Resp("assign_role", 404, "User not found", None,
                            "", "", {t})
            /\ UNCHANGED storeVars
     ELSE IF role_code \notin roles
       THEN /\ resp' = Resp("assign_role", 404, "Role not found", None,
                            "", "", {t})
            /\ UNCHANGED storeVars
     ELSE /\ grants' = grants \cup {<<user_id, role_code>>}
          /\ resp' = Resp("assign_role", 204, "", user_id, "", "", {t})
          /\ UNCHANGED <<users, roles, accounts, countries, audits, resets>>
  /\ UNCHANGED <<extVars, now, tokens, stale, req, lockUser, lockAccount, creq>>

\* DELETE /users/roles/revoke, behind require_admin
revoke_role(t, user_id, role_code) ==
  LET g == require_admin(t) IN
  /\ IF g.status # 200 THEN Refused("revoke_role", g, t)
     ELSE IF <<user_id, role_code>> \notin grants
       THEN /\ resp' = Resp("revoke_role", 404,
                            "User does not have this role", None,
                            "", "", {t})
            /\ UNCHANGED storeVars
     ELSE /\ grants' = grants \ {<<user_id, role_code>>}
          /\ resp' = Resp("revoke_role", 204, "", user_id, "", "", {t})
          /\ UNCHANGED <<users, roles, accounts, countries, audits, resets>>
  /\ UNCHANGED <<extVars, now, tokens, stale, req, lockUser, lockAccount, creq>>

\* POST /reference/countries, behind require_admin
create_country(t, country_code) ==
  LET g == require_admin(t) IN
  /\ IF g.status # 200 THEN Refused("create_country", g, t)
     ELSE IF country_code \in countries
       THEN /\ resp' = Resp("create_country", 400,
                            "Country code already exists", None,
                            "", "", {t})
            /\ UNCHANGED storeVars
     ELSE /\ countries' = countries \cup {country_code}
          /\ resp' = Resp("create_country", 201, "", g.user, "", "", {t})
          /\ UNCHANGED <<users, roles, grants, accounts, audits, resets>>
  /\ UNCHANGED <<extVars, now, tokens, stale, req, lockUser, lockAccount, creq>>

\* Frame of an assign_role request that runs concurrently with others.
IdleAssign == [pc |-> "idle", token |-> {}, user_id |-> 0, role_code |-> "",
               status |-> 0, detail |-> ""]

AssignFinish(p, status, detail) ==
  [areq EXCEPT ![p].pc = "done", ![p].status = status, ![p].detail = detail]

\* assign_role up to db.add: the gate, the user and role look-ups and the
\* look-up of an existing grant, all reading committed rows.
assign_role_check(p, t, user_id, role_code) ==
  LET g == require_admin(t)
      a == [areq EXCEPT ![p].token = {t}, ![p].user_id = user_id,
                        ![p].role_code = role_code]
  IN
  /\ areq[p].pc = "idle"
  /\ areq' =
       IF g.status # 200
         THEN [a EXCEPT ![p].pc = "done", ![p].status = g.status,
                        ![p].detail = g.detail]
       ELSE IF user_id \notin DOMAIN users
         THEN [a EXCEPT ![p].pc = "done", ![p].status = 404,
                        ![p].detail = "User not found"]
       ELSE IF role_code \notin roles
         THEN [a EXCEPT ![p].pc = "done", ![p].status = 404,
                        ![p].detail = "Role not found"]
       ELSE IF <<user_id, role_code>> \in grants
         THEN [a EXCEPT ![p].pc = "done", ![p].status = 204]
       ELSE [a EXCEPT ![p].pc = "commit"]
  /\ UNCHANGED <<storeVars, now, tokens, stale, req, lockUser, lockAccount,
                 creq, resp, catalogVars>>

\* db.commit() of assign_role: the INSERT violates the primary key of
\* adp_user_role when the pair was committed meanwhile; the IntegrityError
\* is not caught (500).
assign_role_commit(p) ==
  /\ areq[p].pc = "commit"
  /\ IF <<areq[p].user_id, areq[p].role_code>> \in grants
       THEN /\ areq' = AssignFinish(p, 500, "IntegrityError")
            /\ UNCHANGED grants
       ELSE /\ grants' = grants \cup {<<areq[p].user_id, areq[p].role_code>>}
            /\ areq' = AssignFinish(p, 204, "")
  /\ UNCHANGED <<users, roles, accounts, countries, audits, resets, now,
                 tokens, stale, req, lockUser, lockAccount, creq, resp,
                 catalogVars>>

\* A request to a route that depends on require_employee.
employee_route(t) ==
  /\ LET g == require_employee(t) IN
       resp' = Resp("require_employee", g.status, g.detail, g.user,
                    "", "", {t})
  /\ UNCHANGED <<extVars, storeVars, now, tokens, stale, req, lockUser, lockAccount,
                 creq>>

\* Time passes.
Tick ==
  /\ \E i \in Instants : i > now /\ now' = i
  /\ UNCHANGED <<extVars, storeVars, tokens, stale, req, lockUser, lockAccount,
                 creq, resp>>

\* ---------------------------------------------------------- password reset
\* Variant: an unknown email is answered with an error.
reset_request_response_leaky(u) ==
  IF u = None THEN Result(404, "User not found", None)
  ELSE Result(200, RESET_GENERIC, None)

\* The response of request_password_reset for the row u the lookup returned.
reset_request_response(u) ==
  IF u = None THEN Result(200, RESET_GENERIC, None)
  ELSE Result(200, RESET_GENERIC, None)

\* uuid4(): a token id not in use (ids carry no meaning, so the least
\* unused one stands for any of them).
uuid4 == {id \in TokenIds \ DOMAIN resets :
            \A k \in TokenIds \ DOMAIN resets : id <= k}

\* The adp_password_reset row created for user u.
NewReset(u) ==
  [user_id |-> u, created_at |-> now,
   expires_at |-> now + PASSWORD_RESET_EXPIRE_HOURS * MINUTES_PER_HOUR,
   used_at |-> None]

\* POST /auth/password-reset/request
request_password_reset(email) ==
  /\ \E u \in First(get_user_by_identifier(email)) :
       LET r == reset_request_response(u) IN
       /\ resp' = Resp("request_password_reset", r.status, r.detail, r.user,
                       email, "", {})
       /\ IF u = None
            THEN UNCHANGED resets
            ELSE \E id \in uuid4 :
                   resets' = [k \in DOMAIN resets \cup {id} |->
                                IF k = id THEN NewReset(u) ELSE resets[k]]
  /\ UNCHANGED <<extVars, users, roles, grants, accounts, countries, audits, now,
                 tokens, stale, req, lockUser, lockAccount, creq>>

\* Frame of a confirm_password_reset request: at is utcnow() at the expiry
\* check, wrote the columns its transaction has committed.
IdleConfirm == [pc |-> "idle", token |-> 0, new_password |-> "",
                status |-> 0, detail |-> "", at |-> None, wrote |-> {}]

ConfirmFinish(p, status, detail) ==
  [creq EXCEPT ![p].pc = "done", ![p].status = status, ![p].detail = detail]

\* A confirm request arrives with a token and a new password.
confirm_begin(p, token, new_password) ==
  /\ creq[p].pc = "idle"
  /\ creq' = [creq EXCEPT ![p] = [IdleConfirm EXCEPT !.pc = "check",
                                     !.token = token,
                                     !.new_password = new_password]]
  /\ UNCHANGED <<extVars, storeVars, now, tokens, stale, req, lockUser, lockAccount,
                 resp>>

\* The token lookup and the three rejections.
confirm_check(p) ==
  /\ creq[p].pc = "check"
  /\ creq' =
       IF creq[p].token \notin DOMAIN resets
         THEN ConfirmFinish(p, 400, "Invalid or expired reset token")
       ELSE IF resets[creq[p].token].used_at # None
         THEN ConfirmFinish(p, 400, "This reset token has already been used")
       ELSE IF resets[creq[p].token].expires_at < now
         THEN ConfirmFinish(p, 400, "This reset token has expired")
       ELSE [creq EXCEPT ![p].pc = "commit", ![p].at = now]
  /\ UNCHANGED <<extVars, storeVars, now, tokens, stale, req, lockUser, lockAccount,
                 resp>>

\* Variant: the password hash is committed without the used_at mark.
confirm_commit_nomark(p) ==
  /\ creq[p].pc = "commit"
  /\ users' = [users EXCEPT ![resets[creq[p].token].user_id].password_hash =
                 get_password_hash(creq[p].new_password)]
  /\ creq' = [creq EXCEPT ![p].pc = "done", ![p].status = 200,
                ![p].detail = "Password has been reset successfully.",
                ![p].wrote = {"password_hash"}]
  /\ UNCHANGED <<extVars, roles, grants, accounts, countries, audits, resets, now,
                 tokens, stale, req, lockUser, lockAccount, resp>>

\* The new password hash and the used_at mark, then db.commit().
confirm_commit(p) ==
  /\ creq[p].pc = "commit"
  /\ users' = [users EXCEPT ![resets[creq[p].token].user_id].password_hash =
                 get_password_hash(creq[p].new_password)]
  /\ resets' = [resets EXCEPT ![creq[p].token].used_at = now]
  /\ creq' = [creq EXCEPT ![p].pc = "done", ![p].status = 200,
                ![p].detail = "Password has been reset successfully.",
                ![p].wrote = {"password_hash", "used_at"}]
  /\ UNCHANGED <<extVars, roles, grants, accounts, countries, audits, now, tokens,
                 stale, req, lockUser, lockAccount, resp>>

confirm_password_reset(p) ==
  \/ \E t \in TokenIds \cup {0}, pw \in NewPasswords : confirm_begin(p, t, pw)
  \/ confirm_check(p)
  \/ confirm_commit(p)

\* ---------------------------------------------------------------- catalog
\* The handlers of the catalog routers.  The account a request acts for is
\* the row the get_current_account dependency hands to the handler; it is
\* an input of the handlers below.
authVars == <<storeVars, now, tokens, stale, req, lockUser, lockAccount,
              creq, areq>>

\* A value of a Numeric column, kept exact as numerator and denominator.
Rational(n, d) == [num |-> n, den |-> d]
Zero == Rational(0, 1)
SameNumber(a, b) == a.num * b.den = b.num * a.den

RECURSIVE SumOver(_, _)
SumOver(f, S) ==
  IF S = {} THEN 0
  ELSE LET x == CHOOSE y \in S : TRUE IN f[x] + SumOver(f, S \ {x})

EmptyTable == [k \in {} |-> 0]
Without(f, k) == [x \in DOMAIN f \ {k} |-> f[x]]

\* ---------------------------------------------------------------- feedback
\* The feedback rows of a series among the rows fb a session sees.
RowsOf(fb, series_id) == {k \in DOMAIN fb : k[2] = series_id}

\* The avg/count query of _update_series_rating over the rows fb, with the
\* "or 0" applied to a NULL average.
rating_stats(fb, series_id) ==
  LET rows == RowsOf(fb, series_id) IN
  [count |-> Cardinality(rows),
   avg |-> IF rows = {} THEN Zero
           ELSE Rational(SumOver(fb, rows), Cardinality(rows))]

\* Frame of a feedback request that runs concurrently with others: the
\* request, the series attributes as loaded, and the values assigned to
\* them, pending until the commit.
IdleFeedback ==
  [pc |-> "idle", op |-> "", account |-> 0, series_id |-> 0, rating |-> 0,
   loaded |-> [count |-> 0, avg |-> Zero],
   pending |-> [count |-> 0, avg |-> Zero],
   status |-> 0, detail |-> ""]

FeedbackFinish(f, status, detail) ==
  [f EXCEPT !.pc = "done", !.status = status, !.detail = detail]

\* Another request of the same account on the same series holds the
\* feedback row (its primary key) in an open transaction.
RowHeld(p, account, series_id) ==
  \E q \in DOMAIN freq \ {p} :
    /\ freq[q].pc = "commit"
    /\ freq[q].account = account
    /\ freq[q].series_id = series_id

\* _update_series_rating as run inside a request: the series attributes
\* are assigned the statistics of the rows the session sees.
update_series_rating(f, fb) ==
  [f EXCEPT !.pc = "commit",
            !.loaded = [count |-> series[f.series_id].rating_count,
                        avg |-> series[f.series_id].average_rating],
            !.pending = rating_stats(fb, f.series_id)]

\* add_feedback up to db.commit(): validation, the series and feedback
\* look-ups, the insert or update, db.flush() and _update_series_rating,
\* which sees the committed rows and the row just flushed.
add_feedback_stage(p, account, series_id, rating) ==
  LET f == [freq[p] EXCEPT !.op = "add_feedback", !.account = account,
                           !.series_id = series_id, !.rating = rating]
  IN
  /\ freq[p].pc = "idle"
  /\ ~RowHeld(p, account, series_id)
  /\ freq' = [freq EXCEPT ![p] =
       IF rating < 1 \/ rating > 5
         THEN FeedbackFinish(f, 400, "Rating must be between 1 and 5")
       ELSE IF series_id \notin DOMAIN series
         THEN FeedbackFinish(f, 404, "Series not found")
       ELSE update_series_rating(
              f, (<<account, series_id>> :> rating) @@ feedback)]
  /\ UNCHANGED <<authVars, resp, autoflush, catalogStore, sreq, lockSeries,
                 vreq, ureq>>

\* delete_my_feedback up to db.commit(): db.delete(fb) marks the row, and
\* the query of _update_series_rating runs without a db.flush() before
\* it: the DELETE has been sent, and the row is gone from what the query
\* sees, only when the session autoflushes.
delete_my_feedback_stage(p, account, series_id) ==
  LET f == [freq[p] EXCEPT !.op = "delete_my_feedback",
                           !.account = account, !.series_id = series_id]
      key == <<account, series_id>>
  IN
  /\ freq[p].pc = "idle"
  /\ ~RowHeld(p, account, series_id)
  /\ freq' = [freq EXCEPT ![p] =
       IF key \notin DOMAIN feedback
         THEN FeedbackFinish(f, 404, "No feedback found")
       ELSE IF series_id \notin DOMAIN series
         THEN [f EXCEPT !.pc = "commit"]
       ELSE update_series_rating(
              f, IF autoflush THEN Without(feedback, key) ELSE feedback)]
  /\ UNCHANGED <<authVars, resp, autoflush, catalogStore, sreq, lockSeries,
                 vreq, ureq>>

\* The series row after the UPDATE of a commit: the unit of work writes
\* the attributes whose assigned value differs from the loaded one.
SeriesWrite(f) ==
  IF f.series_id \notin DOMAIN series THEN series
  ELSE [series EXCEPT
         ![f.series_id].rating_count =
           IF f.pending.count # f.loaded.count THEN f.pending.count ELSE @,
         ![f.series_id].average_rating =
           IF f.pending.avg # f.loaded.avg THEN f.pending.avg ELSE @]

\* db.commit() of add_feedback and delete_my_feedback.
feedback_commit(p) ==
  LET f == freq[p]
      key == <<f.account, f.series_id>>
  IN
  /\ f.pc = "commit"
  /\ feedback' = IF f.op = "add_feedback"
                   THEN (key :> f.rating) @@ feedback
                   ELSE Without(feedback, key)
  /\ series' = SeriesWrite(f)
  /\ freq' = [freq EXCEPT ![p] =
       FeedbackFinish(f, IF f.op = "add_feedback" THEN 200 ELSE 204, "")]
  /\ UNCHANGED <<authVars, resp, autoflush, episodes, links, views,
                 schedules, sreq, lockSeries, vreq, ureq>>

\* ------------------------------------------------------------ catalog store
\* The bearer the administrator obtained from a login at instant 0.
AdminBearer ==
  [sub |-> StrOf(1), roles |-> {"ADMIN"},
   exp |-> ACCESS_TOKEN_EXPIRE_MINUTES, key |-> SECRET_KEY]

AccountIds == {1, 2}
SeriesIds == {1, 2}
Ratings == {0, 2, 5}

\* A series row whose denormalised columns agree with the rows eps of
\* adp_episode and fb of adp_feedback.
SeriesRow(series_id, eps, fb) ==
  [num_episodes |-> Cardinality({e \in DOMAIN eps :
                                   eps[e].series_id = series_id}),
   average_rating |-> rating_stats(fb, series_id).avg,
   rating_count |-> rating_stats(fb, series_id).count]

\* ---------------------------------------------------------------- episodes
EpisodesOf(eps, series_id) == {e \in DOMAIN eps : eps[e].series_id = series_id}

\* Rows of adp_schedule and adp_view_history reference the episode; their
\* foreign keys carry no ON DELETE rule.
EpisodeReferenced(episode_id) ==
  \/ \E s \in DOMAIN schedules : schedules[s].episode_id = episode_id
  \/ \E v \in DOMAIN views : views[v].episode_id = episode_id

\* Response of a catalog handler that raised after its gate admitted the
\* request: nothing is committed.
CatalogError(op, status, detail, t) ==
  /\ resp' = Resp(op, status, detail, None, "", "", {t})
  /\ UNCHANGED catalogStore

\* POST /episodes/, behind require_admin.  The count query for num_episodes
\* runs after db.add(episode): an autoflushing session has sent the INSERT
\* by then and the query counts the new row, to which the handler adds 1.
create_episode(t, series_id) ==
  LET g == require_admin(t)
      next_id == NextId(DOMAIN episodes)
      added == (next_id :> [series_id |-> series_id, total_viewers |-> 0])
                 @@ episodes
      counted == Cardinality(EpisodesOf(IF autoflush THEN added ELSE episodes,
                                        series_id))
  IN
  /\ Cardinality(DOMAIN episodes) < MaxEpisodes
  /\ IF g.status # 200
       THEN CatalogError("create_episode", g.status, g.detail, t)
     ELSE IF series_id \notin DOMAIN series
       THEN CatalogError("create_episode", 404, "Series not found", t)
     ELSE /\ episodes' = added
          /\ series' = [series EXCEPT ![series_id].num_episodes = counted + 1]
          /\ resp' = Resp("create_episode", 201, "", g.user, "", "", {t})
          /\ UNCHANGED <<feedback, links, views, schedules>>
  /\ UNCHANGED <<authVars, autoflush, freq, sreq, lockSeries, vreq, ureq>>

\* DELETE /episodes/{episode_id}, behind require_admin.  The count query
\* runs after db.delete(episode): the row is gone from what it counts only
\* when the session autoflushes.  The DELETE of an episode that schedules
\* or view history reference violates their foreign keys.
delete_episode(t, episode_id) ==
  LET g == require_admin(t)
      series_id == episodes[episode_id].series_id
      removed == Without(episodes, episode_id)
      counted == Cardinality(EpisodesOf(IF autoflush THEN removed
                                        ELSE episodes, series_id))
  IN
  /\ IF g.status # 200
       THEN CatalogError("delete_episode", g.status, g.detail, t)
     ELSE IF episode_id \notin DOMAIN episodes
       THEN CatalogError("delete_episode", 404, "Episode not found", t)
     ELSE IF EpisodeReferenced(episode_id)
       THEN CatalogError("delete_episode", 500, "IntegrityError", t)
     ELSE /\ episodes' = removed
          /\ series' = IF series_id \in DOMAIN series
                         THEN [series EXCEPT ![series_id].num_episodes = counted]
                         ELSE series
          /\ resp' = Resp("delete_episode", 204, "", g.user, "", "", {t})
          /\ UNCHANGED <<feedback, links, views, schedules>>
  /\ UNCHANGED <<authVars, autoflush, freq, sreq, lockSeries, vreq, ureq>>

\* ------------------------------------------------------------------ series
\* Frame of a create_series request that runs concurrently with others.
\* conc records that another create_series was in flight when it began.
IdleSeries ==
  [pc |-> "idle", token |-> {}, num_episodes |-> 0, genre_codes |-> {},
   series_id |-> 0, conc |-> FALSE, status |-> 0, detail |-> ""]

SeriesFinish(p, status, detail) ==
  [sreq EXCEPT ![p].pc = "done", ![p].status = status, ![p].detail = detail]

\* POST /series/ up to the try block: the require_admin dependency.
create_series_begin(p, t, num_episodes, genre_codes) ==
  LET g == require_admin(t)
      s == [sreq EXCEPT ![p].token = {t}, ![p].num_episodes = num_episodes,
                        ![p].genre_codes = genre_codes,
                        ![p].conc = \E q \in DOMAIN sreq \ {p} :
                                      sreq[q].pc \in {"lock", "commit"}]
  IN
  /\ sreq[p].pc = "idle"
  /\ sreq' = IF g.status # 200
               THEN [s EXCEPT ![p].pc = "done", ![p].status = g.status,
                              ![p].detail = g.detail]
               ELSE [s EXCEPT ![p].pc = "lock"]
  /\ UNCHANGED <<authVars, resp, autoflush, catalogStore, freq, lockSeries,
                 vreq, ureq>>

SeriesLockGranted_nolock(p) == TRUE

\* with_for_update(): wait for the lock on adp_series.
SeriesLockGranted(p) == lockSeries = 0

\* max(series_id) FOR UPDATE, next_id and the pending rows.
create_series_lock(p) ==
  /\ sreq[p].pc = "lock"
  /\ SeriesLockGranted(p)
  /\ lockSeries' = p
  /\ sreq' = [sreq EXCEPT ![p].pc = "commit",
                          ![p].series_id = NextId(DOMAIN series)]
  /\ UNCHANGED <<authVars, resp, autoflush, catalogStore, freq, vreq, ureq>>

\* The wait for the lock ends with an OperationalError of the store (lock
\* timeout): rollback and 409.
create_series_conflict(p) ==
  /\ sreq[p].pc = "lock"
  /\ ~SeriesLockGranted(p)
  /\ sreq' = SeriesFinish(p, 409,
                          "Resource is being modified by another user. Please try again.")
  /\ UNCHANGED <<authVars, resp, autoflush, catalogStore, freq, lockSeries,
                 vreq, ureq>>

NewSeries(p) ==
  [num_episodes |-> sreq[p].num_episodes, average_rating |-> Zero,
   rating_count |-> 0]

\* db.commit() of create_series: the series row and its genre rows are
\* inserted and the lock is released.  A primary-key violation raises
\* IntegrityError, which the handler does not catch (500).
create_series_commit(p) ==
  /\ sreq[p].pc = "commit"
  /\ IF sreq[p].series_id \in DOMAIN series
       THEN /\ sreq' = SeriesFinish(p, 500, "IntegrityError")
            /\ UNCHANGED <<series, links>>
       ELSE /\ series' = (sreq[p].series_id :> NewSeries(p)) @@ series
            /\ links' = links \cup
                 {<<"adp_series_genre", sreq[p].series_id, c>> :
                    c \in sreq[p].genre_codes}
            /\ sreq' = SeriesFinish(p, 201, "")
  /\ lockSeries' = Release(p, lockSeries)
  /\ UNCHANGED <<authVars, resp, autoflush, episodes, feedback, views,
                 schedules, freq, vreq, ureq>>

\* The tables whose rows delete_series removes by a bulk DELETE, besides
\* adp_feedback and adp_episode.
ClearedTables ==
  {"adp_series_genre", "adp_series_dub", "adp_series_sub", "adp_watchlist"}

ForeignKeyViolation_unenforced(series_id) == FALSE

\* The statements of delete_series violate a foreign key of the store,
\* none of which carries an ON DELETE rule: an episode of the series is
\* referenced by adp_schedule or adp_view_history when the episodes are
\* deleted, or the series is referenced by adp_contract or
\* adp_series_country when it is deleted.
ForeignKeyViolation(series_id) ==
  \/ \E e \in EpisodesOf(episodes, series_id) : EpisodeReferenced(e)
  \/ \E l \in links : l[2] = series_id /\ l[1] \notin ClearedTables

\* DELETE /series/{series_id}, behind require_admin; one request at a
\* time, so the row lock is granted at once.  The IntegrityError of a
\* foreign-key violation is not an OperationalError: the handler lets it
\* through (500) and nothing is committed.
delete_series(t, series_id) ==
  LET g == require_admin(t) IN
  /\ IF g.status # 200
       THEN CatalogError("delete_series", g.status, g.detail, t)
     ELSE IF series_id \notin DOMAIN series
       THEN CatalogError("delete_series", 404, "Series not found", t)
     ELSE IF ForeignKeyViolation(series_id)
       THEN CatalogError("delete_series", 500, "IntegrityError", t)
     ELSE /\ links' = {l \in links : l[2] # series_id}
          /\ feedback' = [k \in DOMAIN feedback \ RowsOf(feedback, series_id)
                            |-> feedback[k]]
          /\ episodes' = [e \in DOMAIN episodes \ EpisodesOf(episodes, series_id)
                            |-> episodes[e]]
          /\ series' = Without(series, series_id)
          /\ resp' = Resp("delete_series", 204, "", g.user, "", "", {t})
          /\ UNCHANGED <<views, schedules>>
  /\ UNCHANGED <<authVars, autoflush, freq, sreq, lockSeries, vreq, ureq>>

\* ------------------------------------------------------------- record_view
WatchStatuses == {"STARTED", "IN_PROGRESS", "FINISHED"}

\* Frame of a record_view request that runs concurrently with others:
\* the request, total_viewers as loaded with the episode, and the view_id
\* computed from max(view_id).
IdleView ==
  [pc |-> "idle", account |-> 0, episode_id |-> 0, loaded |-> 0,
   view_id |-> 0, status |-> 0, detail |-> ""]

ViewFinish(p, status, detail) ==
  [vreq EXCEPT ![p].pc = "done", ![p].status = status, ![p].detail = detail]

\* POST /episodes/{episode_id}/view up to the episode look-up.
record_view_load(p, account, episode_id, watch_status) ==
  LET v == [vreq EXCEPT ![p].account = account, ![p].episode_id = episode_id]
  IN
  /\ vreq[p].pc = "idle"
  /\ vreq' =
       IF watch_status \notin WatchStatuses
         THEN [v EXCEPT ![p].pc = "done", ![p].status = 400,
                        ![p].detail = "Invalid watch status"]
       ELSE IF episode_id \notin DOMAIN episodes
         THEN [v EXCEPT ![p].pc = "done", ![p].status = 404,
                        ![p].detail = "Episode not found"]
       ELSE [v EXCEPT ![p].pc = "next_id",
                      ![p].loaded = episodes[episode_id].total_viewers]
  /\ UNCHANGED <<authVars, resp, autoflush, catalogStore, freq, sreq,
                 lockSeries, ureq>>

\* max(view_id), read without a lock, and next_id.
record_view_next_id(p) ==
  /\ vreq[p].pc = "next_id"
  /\ vreq' = [vreq EXCEPT ![p].pc = "commit",
                          ![p].view_id = NextId(DOMAIN views)]
  /\ UNCHANGED <<authVars, resp, autoflush, catalogStore, freq, sreq,
                 lockSeries, ureq>>

\* db.commit() of record_view: the INSERT of the view-history row, which
\* violates the primary key when the view_id was committed meanwhile (the
\* IntegrityError is not caught, 500), and the UPDATE that stores the
\* total_viewers the handler computed from the loaded value.
record_view_commit(p) ==
  LET v == vreq[p] IN
  /\ v.pc = "commit"
  /\ IF v.view_id \in DOMAIN views
       THEN /\ vreq' = ViewFinish(p, 500, "IntegrityError")
            /\ UNCHANGED <<views, episodes>>
       ELSE /\ views' = (v.view_id :> [account |-> v.account,
                                       episode_id |-> v.episode_id]) @@ views
            /\ episodes' = [episodes EXCEPT
                             ![v.episode_id].total_viewers = v.loaded + 1]
            /\ vreq' = ViewFinish(p, 204, "")
  /\ UNCHANGED <<authVars, resp, autoflush, series, feedback, links,
                 schedules, freq, sreq, lockSeries, ureq>>

\* --------------------------------------------------------------- schedules
\* POST /schedules/, behind require_admin.
create_schedule(t, episode_id, start_datetime, end_datetime) ==
  LET g == require_admin(t)
      next_id == NextId(DOMAIN schedules)
  IN
  /\ Cardinality(DOMAIN schedules) < MaxSchedules
  /\ IF g.status # 200
       THEN CatalogError("create_schedule", g.status, g.detail, t)
     ELSE IF episode_id \notin DOMAIN episodes
       THEN CatalogError("create_schedule", 404, "Episode not found", t)
     ELSE IF end_datetime <= start_datetime
       THEN CatalogError("create_schedule", 400,
                         "End time must be after start time", t)
     ELSE /\ schedules' = (next_id :> [episode_id |-> episode_id,
                                       start_datetime |-> start_datetime,
                                       end_datetime |-> end_datetime])
                            @@ schedules
          /\ resp' = Resp("create_schedule", 201, "", g.user, "", "", {t})
          /\ UNCHANGED <<series, episodes, feedback, links, views>>
  /\ UNCHANGED <<authVars, autoflush, freq, sreq, lockSeries, vreq, ureq>>

\* Frame of an update_schedule request that runs concurrently with
\* others: the request and the values assigned to the attributes that
\* changed (None: attribute not modified), pending until the commit.
IdleUpdate ==
  [pc |-> "idle", token |-> {}, schedule_id |-> 0,
   start_datetime |-> None, end_datetime |-> None,
   status |-> 0, detail |-> ""]

UpdateFinish(u, status, detail) ==
  [u EXCEPT !.pc = "done", !.status = status, !.detail = detail]

\* The value of an attribute after the handler's assignment: the payload
\* field if it is present, the loaded value otherwise.
Assigned(field, loaded) == IF field # None THEN field ELSE loaded

\* The value the commit's UPDATE writes for an attribute: nothing (None)
\* unless the attribute was assigned a value other than the loaded one.
Modified(field, loaded) ==
  IF field # None /\ field # loaded THEN field ELSE None

\* "Validate times" of update_schedule, on the attributes of the loaded
\* object after the assignments.
update_schedule_validate(start_datetime, end_datetime) ==
  end_datetime > start_datetime

\* PATCH /schedules/{schedule_id} up to db.commit(): the gate, the
\* look-up, the assignments of the payload fields that are present and
\* the validation.  A rejected request never commits.
update_schedule_check(p, t, schedule_id, start_datetime, end_datetime) ==
  LET g == require_admin(t)
      u == [ureq[p] EXCEPT !.token = {t}, !.schedule_id = schedule_id]
      row == schedules[schedule_id]
  IN
  /\ ureq[p].pc = "idle"
  /\ ureq' = [ureq EXCEPT ![p] =
       IF g.status # 200 THEN UpdateFinish(u, g.status, g.detail)
       ELSE IF schedule_id \notin DOMAIN schedules
         THEN UpdateFinish(u, 404, "Schedule not found")
       ELSE IF ~update_schedule_validate(
                  Assigned(start_datetime, row.start_datetime),
                  Assigned(end_datetime, row.end_datetime))
         THEN UpdateFinish(u, 400, "End time must be after start time")
       ELSE [u EXCEPT
              !.pc = "commit",
              !.start_datetime = Modified(start_datetime, row.start_datetime),
              !.end_datetime = Modified(end_datetime, row.end_datetime)]]
  /\ UNCHANGED <<authVars, resp, autoflush, catalogStore, freq, sreq,
                 lockSeries, vreq>>

\* db.commit() of update_schedule: the UPDATE sets the modified columns of
\* the row and leaves the others as they are stored; it matches no row
\* (StaleDataError, 500) when the schedule was deleted meanwhile.
update_schedule_commit(p) ==
  LET u == ureq[p] IN
  /\ u.pc = "commit"
  /\ IF u.schedule_id \notin DOMAIN schedules
       THEN /\ ureq' = [ureq EXCEPT ![p] =
                          UpdateFinish(u, 500, "StaleDataError")]
            /\ UNCHANGED schedules
       ELSE /\ schedules' = [schedules EXCEPT
              ![u.schedule_id].start_datetime = Assigned(u.start_datetime, @),
              ![u.schedule_id].end_datetime = Assigned(u.end_datetime, @)]
            /\ ureq' = [ureq EXCEPT ![p] = UpdateFinish(u, 200, "")]
  /\ UNCHANGED <<authVars, resp, autoflush, series, episodes, feedback,
                 links, views, freq, sreq, lockSeries, vreq>>

\* DELETE /schedules/{schedule_id}, behind require_admin.
delete_schedule(t, schedule_id) ==
  LET g == require_admin(t) IN
  /\ IF g.status # 200
       THEN CatalogError("delete_schedule", g.status, g.detail, t)
     ELSE IF schedule_id \notin DOMAIN schedules
       THEN CatalogError("delete_schedule", 404, "Schedule not found", t)
     ELSE /\ schedules' = Without(schedules, schedule_id)
          /\ resp' = Resp("delete_schedule", 204, "", g.user, "", "", {t})
          /\ UNCHANGED <<series, episodes, feedback, links, views>>
  /\ UNCHANGED <<authVars, autoflush, freq, sreq, lockSeries, vreq, ureq>>

\* ------------------------------------------------------------ initial store
SeedUsers ==
  (1 :> [email |-> "admin@x.com", username |-> "admin",
         password_hash |-> get_password_hash("adminpw"),
         is_active |-> TRUE, last_login_at |-> None])
  @@ (2 :> [email |-> "a@x.com", username |-> "alice",
            password_hash |-> get_password_hash("secret123"),
            is_active |-> TRUE, last_login_at |-> None])

\* No request of the other handlers is in flight.
InitFrames ==
  /\ areq = [p \in AProcs |-> IdleAssign]
  /\ freq = [p \in FProcs |-> IdleFeedback]
  /\ sreq = [p \in SProcs |-> IdleSeries]
  /\ lockSeries = 0
  /\ vreq = [p \in VProcs |-> IdleView]
  /\ ureq = [p \in UProcs |-> IdleUpdate]

\* The handlers outside the catalog run against an empty catalog.
InitExt ==
  /\ InitFrames
  /\ autoflush = TRUE
  /\ series = EmptyTable
  /\ episodes = EmptyTable
  /\ feedback = EmptyTable
  /\ links = {}
  /\ views = EmptyTable
  /\ schedules = EmptyTable

InitCommon ==
  /\ countries = {"US"}
  /\ audits = <<>>
  /\ resets = <<>>
  /\ now = 0
  /\ tokens = {}
  /\ stale = {}
  /\ req = [p \in Procs |-> IdleReq]
  /\ lockUser = 0
  /\ lockAccount = 0
  /\ creq = [p \in CProcs |-> IdleConfirm]
  /\ resp = NoResp
  /\ InitExt

\* Signup runs against a store that already holds the administrator and
\* one user; the role table may or may not contain the USER role.
InitSignup ==
  /\ InitCommon
  /\ users = SeedUsers
  /\ roles \in {{"ADMIN", "EMPLOYEE", "USER"}, {"ADMIN", "EMPLOYEE"}}
  /\ grants = {<<1, "ADMIN">>} \cup (IF "USER" \in roles THEN {<<2, "USER">>} ELSE {})
  /\ accounts = (1 :> 2)

InitAuth ==
  /\ InitCommon
  /\ users = SeedUsers
  /\ roles = {"ADMIN", "EMPLOYEE", "USER"}
  /\ grants = {<<1, "ADMIN">>, <<2, "USER">>}
  /\ accounts = (1 :> 2)

NextAuth ==
  \/ \E i \in Identifiers, pw \in Passwords : login(i, pw)
  \/ \E t \in tokens : resolve_deps(t)
  \/ \E t \in tokens : resolve_auth(t)
  \/ \E t \in tokens, u \in UserIds : deactivate_user(t, u)
  \/ \E t \in tokens, u \in UserIds : activate_user(t, u)
  \/ Tick

SpecAuth == InitAuth /\ [][NextAuth]_vars

\* Bearer strings a client can present that login never issued: a string
\* that is not a JWT, a token signed with another key, and tokens signed
\* with SECRET_KEY whose sub is absent, is not a number, or names no user.
FarExpiry == 2 * ACCESS_TOKEN_EXPIRE_MINUTES
UnknownUserId == 9

Crafted(sub, key) ==
  [sub |-> sub, roles |-> {"ADMIN"}, exp |-> FarExpiry, key |-> key]

CraftedTokens ==
  { Crafted(NoSub, "not-a-jwt"),
    Crafted(StrOf(1), "another-key"),
    Crafted(NoSub, SECRET_KEY),
    Crafted(NotANumber, SECRET_KEY),
    Crafted(StrOf(UnknownUserId), SECRET_KEY) }

Resolvers == {"deps.get_current_user", "auth.get_current_user"}

NextSession ==
  \/ \E i \in Identifiers, pw \in Passwords : login(i, pw)
  \/ \E t \in tokens \cup CraftedTokens : resolve_deps(t)
  \/ \E t \in tokens \cup CraftedTokens : resolve_auth(t)
  \/ \E op \in Resolvers : resolve_nobearer(op)
  \/ Tick

SpecSession == InitAuth /\ [][NextSession]_vars

\* Bearers that login did not issue in this run, presented to the gated
\* routes: a token of the administrator that expired a minute ago, one that
\* expires at this very instant, and the crafted ones.
Expiring(exp) ==
  [sub |-> StrOf(1), roles |-> {"ADMIN"}, exp |-> exp, key |-> SECRET_KEY]

OtherBearers ==
  { Expiring(-1), Expiring(0),
    Crafted(StrOf(1), "another-key"),
    Crafted(NotANumber, SECRET_KEY) }

\* The two seeded identities log in with their own passwords.
OwnLogins == {<<"admin", "adminpw">>, <<"alice", "secret123">>}

\* Role changes: holders of issued tokens assign and revoke grants and
\* call gated routes, before and after the changes.
GrantChoices == {<<1, "ADMIN">>, <<2, "ADMIN">>, <<2, "EMPLOYEE">>}

NextRoles ==
  \/ \E l \in OwnLogins : login(l[1], l[2])
  \/ \E t \in tokens, g \in GrantChoices : assign_role(t, g[1], g[2])
  \/ \E t \in tokens, g \in GrantChoices : revoke_role(t, g[1], g[2])
  \/ \E t \in tokens : create_country(t, "ZZ")
  \/ \E t \in tokens : employee_route(t)

SpecRoles == InitAuth /\ [][NextRoles]_vars

\* Administration: the gated routes are called with issued tokens, with
\* other bearers and with no bearer.
AdminOps == {"assign_role", "revoke_role", "deactivate_user",
             "activate_user", "create_country"}

NextAdmin ==
  \/ \E l \in OwnLogins : login(l[1], l[2])
  \/ \E t \in tokens \cup OtherBearers : assign_role(t, 2, "EMPLOYEE")
  \/ \E t \in tokens \cup OtherBearers : revoke_role(t, 2, "EMPLOYEE")
  \/ \E t \in tokens \cup OtherBearers : deactivate_user(t, 2)
  \/ \E t \in tokens \cup OtherBearers : activate_user(t, 2)
  \/ \E t \in tokens \cup OtherBearers : create_country(t, "ZZ")
  \/ \E op \in AdminOps : resolve_nobearer(op)

SpecAdmin == InitAuth /\ [][NextAdmin]_vars

\* Every kind of operation next to login: the administrator logs in (with
\* the right and with a wrong password) and changes grants, activation and
\* reference data; one signup and one password reset run step by step; the
\* clock moves once, so that records of different times enter the log.
NextOps ==
  \/ \E pw \in Passwords : login("admin", pw)
  \/ \E t \in tokens : assign_role(t, 2, "EMPLOYEE")
  \/ \E t \in tokens : revoke_role(t, 2, "EMPLOYEE")
  \/ \E t \in tokens : deactivate_user(t, 2)
  \/ \E t \in tokens : activate_user(t, 2)
  \/ \E t \in tokens : create_country(t, "ZZ")
  \/ signup_begin(1, "c@x.com", "carol", "US")
  \/ signup_precheck(1)
  \/ signup_lock_user(1)
  \/ signup_lock_account(1)
  \/ signup_commit(1)
  \/ request_password_reset("a@x.com")
  \/ \E pw \in NewPasswords : confirm_begin(1, 1, pw)
  \/ confirm_check(1)
  \/ confirm_commit(1)
  \/ Tick /\ now' = 1

SpecOps == InitAuth /\ [][NextOps]_vars

\* Login against a store whose writes may fail.
NextLoginFault ==
  \/ NextAuth
  \/ \E i \in Identifiers, pw \in Passwords : login_store_failure(i, pw)

SpecLoginFault == InitAuth /\ [][NextLoginFault]_vars

\* Login against a store in which the digest of alice is not one the
\* program wrote: empty, of a foreign scheme, or a truncated bcrypt string.
CorruptDigests == {NoHash, <<"md5", "secret123">>, <<"truncated", "">>}

InitCorrupt ==
  /\ InitCommon
  /\ \E h \in CorruptDigests :
       users = [SeedUsers EXCEPT ![2].password_hash = h]
  /\ roles = {"ADMIN", "EMPLOYEE", "USER"}
  /\ grants = {<<1, "ADMIN">>, <<2, "USER">>}
  /\ accounts = (1 :> 2)

NextCorrupt ==
  \/ \E i \in Identifiers, pw \in Passwords : login(i, pw)
  \/ Tick

SpecCorrupt == InitCorrupt /\ [][NextCorrupt]_vars

\* Concurrent assign_role requests of the holders of issued tokens.
NextAssign ==
  \/ \E l \in OwnLogins : login(l[1], l[2])
  \/ \E p \in AProcs, t \in tokens, u \in {2, 3}, r \in {"EMPLOYEE", "GUEST"} :
       assign_role_check(p, t, u, r)
  \/ \E p \in AProcs : assign_role_commit(p)

SpecAssign == InitAuth /\ [][NextAssign]_vars

\* The identities, two accounts and the administrator's bearer, as the
\* catalog handlers find them.
InitCatalogAuth ==
  /\ users = SeedUsers
  /\ roles = {"ADMIN", "EMPLOYEE", "USER"}
  /\ grants = {<<1, "ADMIN">>, <<2, "USER">>}
  /\ accounts = (1 :> 2) @@ (2 :> 1)
  /\ countries = {"US"}
  /\ audits = <<>>
  /\ resets = <<>>
  /\ now = 0
  /\ tokens = {AdminBearer}
  /\ stale = {}
  /\ req = [p \in Procs |-> IdleReq]
  /\ lockUser = 0
  /\ lockAccount = 0
  /\ creq = [p \in CProcs |-> IdleConfirm]
  /\ resp = NoResp
  /\ InitFrames

\* Series 1 exists, rated by nobody or by account 1; the session factory
\* autoflushes or does not.
InitFeedback ==
  /\ InitCatalogAuth
  /\ autoflush \in BOOLEAN
  /\ feedback \in {EmptyTable, (<<1, 1>> :> 4)}
  /\ episodes = EmptyTable
  /\ series = [s \in {1} |-> SeriesRow(s, episodes, feedback)]
  /\ links = {}
  /\ views = EmptyTable
  /\ schedules = EmptyTable

\* Concurrent feedback requests of the two accounts.
NextFeedback ==
  \/ \E p \in FProcs, a \in AccountIds, s \in SeriesIds, r \in Ratings :
       add_feedback_stage(p, a, s, r)
  \/ \E p \in FProcs, a \in AccountIds, s \in SeriesIds :
       delete_my_feedback_stage(p, a, s)
  \/ \E p \in FProcs : feedback_commit(p)

SpecFeedback == InitFeedback /\ [][NextFeedback]_vars

\* Series 1 and 2 exist, series 1 with no episode or with one, which a
\* schedule may reference; the session factory autoflushes or does not.
InitEpisodes ==
  /\ InitCatalogAuth
  /\ autoflush \in BOOLEAN
  /\ feedback = EmptyTable
  /\ episodes \in {EmptyTable, (1 :> [series_id |-> 1, total_viewers |-> 0])}
  /\ series = [s \in SeriesIds |-> SeriesRow(s, episodes, feedback)]
  /\ links = {}
  /\ views = EmptyTable
  /\ schedules \in {EmptyTable} \cup
       {(1 :> [episode_id |-> e, start_datetime |-> 1, end_datetime |-> 2]) :
          e \in DOMAIN episodes}

EpisodeIds == 1..(MaxEpisodes + 1)

\* The administrator creates and deletes episodes, one request at a time.
NextEpisodes ==
  \/ \E t \in tokens, s \in SeriesIds \cup {3} : create_episode(t, s)
  \/ \E t \in tokens, e \in EpisodeIds : delete_episode(t, e)

SpecEpisodes == InitEpisodes /\ [][NextEpisodes]_vars

\* The catalog is empty or holds series 1.
InitSeries ==
  /\ InitCatalogAuth
  /\ autoflush = TRUE
  /\ feedback = EmptyTable
  /\ episodes = EmptyTable
  /\ series \in {EmptyTable, [s \in {1} |-> SeriesRow(s, episodes, feedback)]}
  /\ links = {}
  /\ views = EmptyTable
  /\ schedules = EmptyTable

\* Concurrent create_series requests of the administrator.
NextSeries ==
  \/ \E p \in SProcs, t \in tokens, n \in {0, 2}, g \in {{}, {"DRAMA"}} :
       create_series_begin(p, t, n, g)
  \/ \E p \in SProcs : create_series_lock(p)
  \/ \E p \in SProcs : create_series_conflict(p)
  \/ \E p \in SProcs : create_series_commit(p)

SpecSeries == InitSeries /\ [][NextSeries]_vars

\* Series 1 has a genre, a watchlist entry, feedback of account 1 and
\* episode 1; series 2 has a genre and episode 2.  Episode 1 may be
\* scheduled or viewed, and series 1 may be under contract or released in
\* a country.
OptionalLinks ==
  {<<"adp_contract", 1, "7">>, <<"adp_series_country", 1, "US">>}

InitDelete ==
  /\ InitCatalogAuth
  /\ autoflush = TRUE
  /\ feedback = (<<1, 1>> :> 4)
  /\ episodes = (1 :> [series_id |-> 1, total_viewers |-> 0])
                  @@ (2 :> [series_id |-> 2, total_viewers |-> 0])
  /\ series = [s \in SeriesIds |-> SeriesRow(s, episodes, feedback)]
  /\ \E opt \in SUBSET OptionalLinks :
       links = {<<"adp_series_genre", 1, "DRAMA">>,
                <<"adp_watchlist", 1, "1">>,
                <<"adp_series_genre", 2, "DRAMA">>} \cup opt
  /\ views \in {EmptyTable, (1 :> [account |-> 1, episode_id |-> 1])}
  /\ schedules \in {EmptyTable,
                     (1 :> [episode_id |-> 1, start_datetime |-> 1,
                            end_datetime |-> 2])}

\* The administrator deletes series and creates and deletes episodes, one
\* request at a time.
NextDelete ==
  \/ \E t \in tokens, s \in SeriesIds \cup {3} : delete_series(t, s)
  \/ \E t \in tokens, s \in SeriesIds : create_episode(t, s)
  \/ \E t \in tokens, e \in EpisodeIds : delete_episode(t, e)

SpecDelete == InitDelete /\ [][NextDelete]_vars

\* Series 1 has episodes 1 and 2, which nobody has viewed yet.
InitViews ==
  /\ InitCatalogAuth
  /\ autoflush = TRUE
  /\ feedback = EmptyTable
  /\ episodes = [e \in {1, 2} |-> [series_id |-> 1, total_viewers |-> 0]]
  /\ series = [s \in {1} |-> SeriesRow(s, episodes, feedback)]
  /\ links = {}
  /\ views = EmptyTable
  /\ schedules = EmptyTable

\* Concurrent record_view requests of the two accounts.
NextViews ==
  \/ \E p \in VProcs, a \in AccountIds, e \in {1, 2, 3},
        w \in {"STARTED", "PAUSED"} : record_view_load(p, a, e, w)
  \/ \E p \in VProcs : record_view_next_id(p)
  \/ \E p \in VProcs : record_view_commit(p)

SpecViews == InitViews /\ [][NextViews]_vars

\* Instants of a broadcast day, and the fields of a ScheduleUpdate
\* payload, each of which may be absent.
Times == {1, 2, 3}
OptionalTimes == Times \cup {None}

\* Episode 1 exists and is not scheduled, or is scheduled from 1 to 3.
InitSchedules ==
  /\ InitCatalogAuth
  /\ autoflush = TRUE
  /\ feedback = EmptyTable
  /\ episodes = (1 :> [series_id |-> 1, total_viewers |-> 0])
  /\ series = [s \in {1} |-> SeriesRow(s, episodes, feedback)]
  /\ links = {}
  /\ views = EmptyTable
  /\ schedules \in {EmptyTable,
                     (1 :> [episode_id |-> 1, start_datetime |-> 1,
                            end_datetime |-> 3])}

\* The schedule routes: create and delete one request at a time, updates
\* concurrently.
NextSchedules ==
  \/ \E t \in tokens, e \in {1, 2}, s \in {1, 2} :
       create_schedule(t, e, s, 2)
  \/ \E p \in UProcs, t \in tokens, id \in 1..MaxSchedules,
        s \in OptionalTimes, f \in OptionalTimes :
       update_schedule_check(p, t, id, s, f)
  \/ \E p \in UProcs : update_schedule_commit(p)
  \/ \E t \in tokens, id \in 1..MaxSchedules : delete_schedule(t, id)

SpecSchedules == InitSchedules /\ [][NextSchedules]_vars

\* Signup payloads whose fields cross the two columns: the email is
\* email-shaped, the username is any string, an email-shaped one included.
CrossEmails == {"a@x.com", "c@x.com", "d@x.com"}
CrossNames == {"alice", "carol", "a@x.com", "c@x.com"}

\* Signups handled one after the other, and logins with each of the
\* identifiers in between.
NextIdent ==
  \/ \E p \in Procs, e \in CrossEmails, n \in CrossNames :
       /\ \A q \in Procs \ {p} : ~InFlight(q)
       /\ signup_begin(p, e, n, "US")
  \/ \E p \in Procs : signup_precheck(p)
  \/ \E p \in Procs : signup_lock_user(p)
  \/ \E p \in Procs : signup_lock_account(p)
  \/ \E p \in Procs : signup_commit(p)
  \/ \E i \in CrossEmails \cup CrossNames : login(i, "secret123")

SpecIdent == InitAuth /\ [][NextIdent]_vars

NextReset ==
  \/ \E e \in ResetEmails : request_password_reset(e)
  \/ \E p \in CProcs : confirm_password_reset(p)
  \/ Tick

SpecReset == InitAuth /\ [][NextReset]_vars

NextSignup == \E p \in Procs : signup(p)

SpecSignup == InitSignup /\ [][NextSignup]_vars

\* ================================================================== claims
Done(p) == req[p].pc = "done"

SeedTaken(x) ==
  \E u \in DOMAIN SeedUsers :
    SeedUsers[u].email = x \/ SeedUsers[u].username = x

\* A signup payload that passes validation against the initial store.
FreshPayload(p) ==
  /\ ~SeedTaken(req[p].email)
  /\ ~SeedTaken(req[p].username)
  /\ req[p].country \in countries

Begun(e) == {p \in Procs : req[p].pc # "idle" /\ req[p].email = e}

\* C1: when N >= 2 signups carrying the same (new) email have all finished,
\* exactly one of them is Created, one identity row holds that email, and
\* every other one ended with the Conflict outcome (400/409), none with an
\* unhandled store error.
C1_OneCreatedRestConflict ==
  \A e \in SignupEmails :
    ( /\ Cardinality(Begun(e)) >= 2
      /\ \A p \in Begun(e) : Done(p) /\ FreshPayload(p) )
    => /\ Cardinality({p \in Begun(e) : req[p].status = 201}) = 1
       /\ Cardinality({u \in DOMAIN users : users[u].email = e}) = 1
       /\ \A p \in Begun(e) : req[p].status \in {201, 400, 409}

\* Two concurrent signups that share nothing.
DisjointPair(p, q) ==
  /\ p # q
  /\ Done(p) /\ Done(q)
  /\ FreshPayload(p) /\ FreshPayload(q)
  /\ req[p].email # req[q].email
  /\ req[p].username # req[q].username
  /\ \A r \in Procs \ {p, q} : req[r].pc = "idle"

LoginMatched(u) ==
  /\ resp.op = "login"
  /\ resp.user = u
  /\ u \in DOMAIN users
  /\ verify_password(resp.password, users[u].password_hash)

\* C3: a login that resolves to an inactive identity with a matching
\* password is answered 403 AccountDisabled without a token; login issues a
\* token only for an identity that is active.
C3_InactiveLoginRefused ==
  \A u \in DOMAIN users :
    (LoginMatched(u) /\ ~users[u].is_active)
    => (resp.status = 403 /\ resp.token = {})

\* C4: a session resolution that presents an unexpired token issued before
\* its subject was deactivated, while the subject is still inactive, is
\* answered 401 and returns no identity.
C4_StaleTokenRejected ==
  \A t \in resp.token :
    ( /\ resp.op \in {"deps.get_current_user", "auth.get_current_user"}
      /\ t \in stale
      /\ t.exp > now
      /\ ~users[ParseInt(t.sub)].is_active )
    => (resp.status = 401 /\ resp.user = None)

SameError(a, b) ==
  a.status = b.status /\ a.detail = b.detail /\ a.token = b.token

\* C5: the response to a login with an identifier that matches no identity
\* and the response to a login with a matching identifier and a wrong
\* password carry the same status code and the same message.
C5_SameFailure ==
  /\ \A i1, i2 \in Identifiers, p1, p2 \in Passwords :
       \A u2 \in get_user_by_identifier(i2) :
         ( /\ get_user_by_identifier(i1) = {}
           /\ ~verify_password(p2, users[u2].password_hash) )
         => SameError(login_response(None, i1, p1),
                      login_response(u2, i2, p2))
  /\ (resp.op = "login" /\ resp.token = {})
       => (resp.status = 401 /\ resp.detail = LOGIN_FAILED)

\* Both failures have happened: a failed attempt on an existing identity is
\* in the audit log and the last login named an unknown identifier.
C5_Witness ==
  /\ resp.op = "login" /\ resp.user = None /\ resp.status = 401
  /\ \E i \in 1..Len(audits) : ~audits[i].success

\* C6: of the confirm requests that present the same reset token at most one
\* succeeds; the others fail with 400.
C6_SingleRedemption ==
  \A p, q \in CProcs :
    (p # q /\ creq[p].pc = "done" /\ creq[q].pc = "done"
       /\ creq[p].token = creq[q].token)
    => /\ ~(creq[p].status = 200 /\ creq[q].status = 200)
       /\ creq[p].status \in {200, 400} /\ creq[q].status \in {200, 400}

\* C7: a confirm succeeds only for an existing token checked strictly before
\* its expires_at; a confirm that fails has written nothing.
C7_ValidTokenOnly ==
  \A p \in CProcs :
    /\ creq[p].status = 200
         => /\ creq[p].token \in DOMAIN resets
            /\ creq[p].at < resets[creq[p].token].expires_at
    /\ creq[p].status = 400 => creq[p].wrote = {}

Redeemed(t) == \E p \in CProcs : creq[p].token = t /\ creq[p].status = 200
                                  /\ creq[p].wrote = {"password_hash", "used_at"}

\* C8: in every committed state a confirm has written the password hash iff
\* it has marked its token used: a token is marked used only by a confirm
\* that also committed the password, a changed password hash belongs to a
\* user one of whose tokens is marked used, and it is the hash of the
\* password of a confirm that redeemed such a token.
C8_AppliedTogether ==
  /\ \A p \in CProcs :
       /\ ("password_hash" \in creq[p].wrote) <=> ("used_at" \in creq[p].wrote)
       /\ "password_hash" \in creq[p].wrote
            => resets[creq[p].token].used_at # None
  /\ \A t \in DOMAIN resets : resets[t].used_at # None => Redeemed(t)
  /\ \A u \in DOMAIN users :
       users[u].password_hash # SeedUsers[u].password_hash
         => \E p \in CProcs :
              /\ creq[p].token \in DOMAIN resets
              /\ resets[creq[p].token].user_id = u
              /\ resets[creq[p].token].used_at # None
              /\ users[u].password_hash
                   = get_password_hash(creq[p].new_password)

\* A confirm has succeeded: the token is marked and the hash is the new one.
C8_Witness ==
  \E p \in CProcs :
    /\ creq[p].status = 200
    /\ resets[creq[p].token].used_at # None
    /\ users[resets[creq[p].token].user_id].password_hash
         = get_password_hash(creq[p].new_password)
    /\ users[resets[creq[p].token].user_id].password_hash
         # SeedUsers[resets[creq[p].token].user_id].password_hash

IsResetRequest == resp' # resp /\ resp'.op = "request_password_reset"

C10_CreatedHoldsUserRole ==
  /\ \A p \in Procs :
       (Done(p) /\ req[p].status = 201) => <<req[p].uid, "USER">> \in grants
  /\ \A u \in DOMAIN users \ DOMAIN SeedUsers : <<u, "USER">> \in grants

\* The email or the username of request p is held by a committed identity.
Held(p) ==
  \E u \in DOMAIN users :
    users[u].email = req[p].email \/ users[u].username = req[p].username

\* Request p leaves its pre-check in this step.
PrecheckStep(p) == req[p].pc = "precheck" /\ req'[p].pc # "precheck"

\* C11: a signup whose email or username is held by an existing identity
\* when it is checked ends with 400 Conflict in that step, and the step
\* leaves every table (and the locks) as they were.
C11_TakenRejectedUnchanged ==
  [][ \A p \in Procs :
        (PrecheckStep(p) /\ Held(p))
        => /\ req'[p].pc = "done"
           /\ req'[p].status = 400
           /\ req'[p].detail \in {"Email already registered",
                                  "Username already taken"}
           /\ UNCHANGED <<storeVars, lockUser, lockAccount>>
    ]_vars

\* A signup was refused for a username that another signup had created, and
\* the only identity holding that username is the earlier one.
C11_Witness ==
  \E p, q \in Procs :
    /\ p # q
    /\ Done(q) /\ req[q].status = 201
    /\ Done(p) /\ req[p].status = 400
    /\ req[p].detail = "Username already taken"
    /\ req[p].username = req[q].username
    /\ {u \in DOMAIN users : users[u].username = req[p].username}
         = {req[q].uid}

\* A login request is answered in this step.  A login whose identifier
\* resolves always writes the log, so only an unresolved one can leave every
\* table as it was.
IsLogin ==
  /\ resp'.op = "login"
  /\ resp' # resp \/ audits' # audits

Last(q) == q[Len(q)]

\* C12: a login whose identifier resolves to an identity appends exactly one
\* audit record, for that identity, whose success flag is true iff the login
\* returned a token; a login whose identifier resolves to no identity appends
\* none; nothing else appends to the log.
C12_OneAuditPerResolvedLogin ==
  [][ /\ IsLogin =>
           IF get_user_by_identifier(resp'.ident) = {}
             THEN audits' = audits /\ resp'.token = {}
             ELSE /\ Len(audits') = Len(audits) + 1
                  /\ audits' = Append(audits, Last(audits'))
                  /\ Last(audits').user_id
                       \in get_user_by_identifier(resp'.ident)
                  /\ Last(audits').user_id = resp'.user
                  /\ Last(audits').login_time = now
                  /\ Last(audits').success = (resp'.token # {})
                  /\ Last(audits').success = (resp'.status = 200)
      /\ audits' # audits => IsLogin
    ]_vars

\* The log holds a failed and a successful attempt of the same identity.
C12_Witness ==
  /\ Len(audits) = 2
  /\ audits[1].user_id = audits[2].user_id
  /\ ~audits[1].success /\ audits[2].success
  /\ resp.op = "login" /\ resp.token # {}

\* C13: the audit log only grows at its end: every step keeps every record
\* already in the log, in place and with the same identity, time, success
\* flag, client address and agent string.
C13_AuditAppendOnly ==
  [][ /\ Len(audits') >= Len(audits)
      /\ \A i \in 1..Len(audits) :
           /\ audits'[i].user_id = audits[i].user_id
           /\ audits'[i].login_time = audits[i].login_time
           /\ audits'[i].success = audits[i].success
           /\ audits'[i].client_ip = audits[i].client_ip
           /\ audits'[i].user_agent = audits[i].user_agent
    ]_vars

\* The log holds records of two different times while a signup, a role
\* grant, a deactivation and a password reset have been committed.
C13_Witness ==
  /\ Len(audits) = 2
  /\ audits[1].login_time # audits[2].login_time
  /\ 3 \in DOMAIN users
  /\ <<2, "EMPLOYEE">> \in grants
  /\ ~users[2].is_active
  /\ \E k \in DOMAIN resets : resets[k].used_at # None

\* A session resolution is answered in this step.
IsResolve == resp' # resp /\ resp'.op \in Resolvers

\* The token verifies against the signing key, the current time is before
\* its expiry, and its subject names an existing identity.
Authentic(t) ==
  /\ t.key = SECRET_KEY
  /\ now < t.exp
  /\ t.sub # NoSub /\ Parseable(t.sub)
  /\ ParseInt(t.sub) \in DOMAIN users

\* C14: a session resolution returns an identity only for a bearer token
\* that verifies, is not expired and names an existing identity (and it is
\* that identity); a request whose token is missing, malformed, wrongly
\* signed, expired or names no existing identity is answered 401 and
\* returns no identity.
C14_IdentityOnlyForAuthenticToken ==
  [][ IsResolve =>
        /\ resp'.user # None =>
             \E t \in resp'.token :
               Authentic(t) /\ resp'.user = ParseInt(t.sub)
        /\ (resp'.token = {} \/ \E t \in resp'.token : ~Authentic(t))
             => (resp'.status = 401 /\ resp'.user = None)
    ]_vars

\* C15: a session resolution presenting a correctly signed, unexpired token
\* whose subject is not the text of an integer is answered 401, with no
\* identity and without an unhandled error.
C15_UnparseableSubjectIs401 ==
  [][ IsResolve =>
        \A t \in resp'.token :
          (t.key = SECRET_KEY /\ now < t.exp /\ t.sub # NoSub
             /\ ~Parseable(t.sub))
          => (resp'.status = 401 /\ resp'.user = None)
    ]_vars

\* C16: every issued token carries the expiry of a successful login of its
\* subject plus the lifetime, verifies at every time strictly before that
\* expiry and fails at the expiry instant and after it.
C16_ExpiryExclusive ==
  \A t \in tokens :
    /\ \E i \in 1..Len(audits) :
         /\ audits[i].success
         /\ StrOf(audits[i].user_id) = t.sub
         /\ t.exp = audits[i].login_time + ACCESS_TOKEN_EXPIRE_MINUTES
    /\ deps_decode_token(t).ok <=> now < t.exp
    /\ auth_decode_token(t).ok <=> now < t.exp

\* C17: before its expiry, the token a login issued for a subject and its
\* role codes verifies to that subject and those role codes, through either
\* decode_token.
C17_IssueVerifyRoundTrip ==
  \A t \in resp.token :
    (resp.op = "login" /\ resp.status = 200 /\ now < t.exp)
    => /\ deps_decode_token(t).ok
       /\ deps_decode_token(t).sub = StrOf(resp.user)
       /\ deps_decode_token(t).roles = get_user_roles(resp.user)
       /\ auth_decode_token(t).ok
       /\ auth_decode_token(t).user_id = resp.user
       /\ "roles" \in DOMAIN auth_decode_token(t)

\* A request to a gated route is answered in this step.
IsGated(ops) == resp' # resp /\ resp'.op \in ops

\* The request passed its gate: the answer is none of the gate's refusals.
Admitted(r) == r.status \notin {401, 403, 500}

\* C18: the gates decide on the grants in the store when the request runs:
\* for a token that resolves to an active identity, a route behind the admin
\* gate is entered iff the identity holds ADMIN (else 403), and a route
\* behind the employee gate iff it holds ADMIN or EMPLOYEE (else 403),
\* whatever roles claim the token carries.
C18_GatesReadCurrentGrants ==
  [][ IsGated(AdminOps \cup {"require_employee"}) =>
        \A t \in resp'.token :
          LET r == deps_get_current_user(t)
              held == {g[2] : g \in {h \in grants : h[1] = r.user}}
              admit == IF resp'.op = "require_employee"
                         THEN held \cap {"ADMIN", "EMPLOYEE"} # {}
                         ELSE "ADMIN" \in held
          IN r.status = 200 =>
               /\ Admitted(resp') <=> admit
               /\ ~admit => resp'.status = 403
    ]_vars

\* A token issued before its subject was granted ADMIN has entered an
\* admin-gated route, and the subject's grant is in the store.
C18_Witness ==
  /\ resp.op = "create_country" /\ resp.status = 201
  /\ \E t \in resp.token :
       /\ "ADMIN" \notin t.roles
       /\ <<ParseInt(t.sub), "ADMIN">> \in grants

\* The bearer set b authenticates nobody: no token, or a token that does
\* not verify, is expired or names no existing identity.
Unauthenticated(b) == b = {} \/ \E t \in b : ~Authentic(t)

\* C19: a request to an admin-gated route that is unauthenticated is answered
\* 401, and one from an authenticated identity that does not hold ADMIN is
\* answered 403; in both cases no table changes.
C19_AdminRoutesRefuse ==
  [][ IsGated(AdminOps) =>
        /\ Unauthenticated(resp'.token)
             => (resp'.status = 401 /\ UNCHANGED storeVars)
        /\ \A t \in resp'.token :
             (Authentic(t) /\ <<ParseInt(t.sub), "ADMIN">> \notin grants)
             => (resp'.status = 403 /\ UNCHANGED storeVars)
    ]_vars

\* C20: a login with the matching password of an active identity returns
\* 200 with a token even when the store fails to record last_login_at; the
\* failure is not surfaced to the caller.
C20_LastLoginBestEffort ==
  \A u \in DOMAIN users :
    (LoginMatched(u) /\ users[u].is_active)
    => (resp.status = 200 /\ resp.token # {})

\* The digest is not a well-formed digest written by get_password_hash.
Corrupt(h) == h = NoHash \/ h[1] # "bcrypt"

\* C21: verify_password, called by a login on the digest of the identity it
\* resolved, returns a boolean for every digest and false for an empty,
\* malformed or foreign one, and that login is answered 401
\* InvalidCredentials, not with an unhandled error.
C21_VerifyNeverRaises ==
  (resp.op = "login" /\ resp.user # None)
  => /\ ~verify_password_raises(users[resp.user].password_hash)
     /\ resp.status \in {200, 401}
     /\ Corrupt(users[resp.user].password_hash)
          => /\ ~verify_password(resp.password,
                                 users[resp.user].password_hash)
             /\ resp.status = 401 /\ resp.detail = LOGIN_FAILED

\* C22: the grants hold each (user, role) pair once, and every assign_role
\* request that passed the gate and named an existing user and role has
\* ended in success with the pair granted, also when it ran concurrently
\* with another request for the same pair.
C22_AssignIdempotent ==
  \A p \in AProcs :
    ( /\ areq[p].pc = "done"
      /\ areq[p].status \notin {401, 403, 404} )
    => /\ areq[p].status = 204
       /\ <<areq[p].user_id, areq[p].role_code>> \in grants
       /\ Cardinality({g \in grants : g = <<areq[p].user_id,
                                           areq[p].role_code>>}) = 1

\* C23: after every committed add_feedback or delete_my_feedback, also of
\* concurrent requests of different accounts on one series, the series'
\* rating_count is the number of its feedback rows and its average_rating
\* is the average of their ratings (0 when there are none).  Stated for
\* sessions that autoflush, under which the aggregate query of
\* delete_my_feedback sees its own delete.
C23_RatingStatsMatchRows ==
  autoflush =>
    \A s \in DOMAIN series :
      /\ series[s].rating_count = Cardinality(RowsOf(feedback, s))
      /\ SameNumber(series[s].average_rating, rating_stats(feedback, s).avg)

\* C24: after any sequence of create_episode and delete_episode requests,
\* the num_episodes of every series is the number of episode rows that
\* belong to it.
C24_EpisodeCountMatchesRows ==
  \A s \in DOMAIN series :
    series[s].num_episodes = Cardinality(EpisodesOf(episodes, s))

Recorded(e) ==
  {p \in VProcs : /\ vreq[p].pc = "done" /\ vreq[p].status = 204
                  /\ vreq[p].episode_id = e}

\* C27: in any interleaving of record_view requests on episodes nobody
\* had viewed, each episode's total_viewers and the number of its
\* view-history rows (their view_ids distinct) equal the number of
\* requests on it that succeeded, and no request ends with the error of
\* a view_id collision.
C27_ViewsCounted ==
  /\ \A e \in DOMAIN episodes :
       /\ episodes[e].total_viewers = Cardinality(Recorded(e))
       /\ Cardinality({v \in DOMAIN views : views[v].episode_id = e})
            = Cardinality(Recorded(e))
  /\ \A p \in VProcs : vreq[p].pc = "done" => vreq[p].status # 500

\* C28: in every reachable committed state every stored schedule has
\* end_datetime > start_datetime.
C28_ScheduleEndsAfterStart ==
  \A s \in DOMAIN schedules :
    schedules[s].end_datetime > schedules[s].start_datetime

\* C29: after any sequence of signups handled one after the other, every
\* identifier matches at most one identity through the email-or-username
\* look-up, no identity's username is another identity's email, and a
\* login that succeeds has authenticated the one identity that owns the
\* identifier.
C29_IdentifierUnambiguous ==
  /\ \A i \in CrossEmails \cup CrossNames \cup Identifiers :
       Cardinality(get_user_by_identifier(i)) <= 1
  /\ \A u, v \in DOMAIN users :
       u # v => users[u].username # users[v].email
  /\ resp.op = "login" /\ resp.status = 200
     => get_user_by_identifier(resp.ident) = {resp.user}

\* Two signups were handled one after the other: the first was created,
\* and the second, whose username is the first one's email or whose email
\* is the first one's username, was rejected by the pre-check.
C29_Witness ==
  \E p, q \in Procs :
    /\ p # q
    /\ req[p].status = 201
    /\ req[q].status = 400
    /\ \/ req[q].username = req[p].email
       \/ req[q].email = req[p].username

====
